---- MODULE Spec2Model ----
(***************************************************************************)
(* Verification model of the AAIF orchestrator.                            *)
(*                                                                         *)
(*   - the routing decision engine of OrchestratorAgent (agent.py):        *)
(*     route, route_by_parameter, smart_route over the agent catalog;      *)
(*   - the streaming event interpreter of the Open WebUI pipe              *)
(*     (aaif_orchestrator_pipe.py): _process_sse_stream, _handle_sse_event,*)
(*     _extract_from_result over the per-request agent_tree;               *)
(*   - direct delegation by OrchestratorExecutor (executor.py) and the     *)
(*     catalog reload of OrchestratorAgent;                                *)
(*   - load_agents_config (config_loader.py);                              *)
(*   - several requests served side by side by one Pipe instance.          *)
(*                                                                         *)
(* Strings that the code inspects character by character (queries,         *)
(* keywords, regex patterns) are sequences of one-character strings.       *)
(* Confidence scores are counted in hundredths (0.91 is 91).               *)
(***************************************************************************)
EXTENDS Integers, Sequences, FiniteSets, TLC

VARIABLES
    \* ---- OrchestratorAgent (agent.py) ----
    agents,          \* self._agents: the catalog, in dict iteration order
    fallback_agent,  \* self._fallback_agent
    rpc,             \* position of the routing caller
    query,           \* argument of the running smart_route / route call
    target,          \* handoff_context.context_data["target_agent"] (NoTarget: absent)
    candidates,      \* route's local list of candidates, after sorting
    result,          \* what the call returned, or the exception it raised
    snapshots,       \* the catalogs self._agents has held during the running call
    \* ---- Pipe (aaif_orchestrator_pipe.py) ----
    ppc,             \* position of Pipe.pipe
    event_emitter,   \* whether an event emitter is in use (user request)
    agent_tree,      \* the per-request interpreter state
    out,             \* everything handed to the caller, in order
    consumed,        \* the frames read from the stream so far
    requests,        \* the requests that run side by side on one Pipe instance
    \* ---- delegation and OrchestratorExecutor (agent.py, executor.py) ----
    delegation_factory,  \* whether self._delegation_factory is set (not None)
    registered,      \* the agents registered with the delegation factory
    xpc,             \* position of OrchestratorExecutor.execute
    event_queue,     \* the events enqueued for the running request, in order
    sent,            \* how the delegation of the running request went
    attempts,        \* the agents the running request was sent to, in order
    \* ---- load_agents_config (config_loader.py) ----
    config_file,     \* the configuration file at config_path
    validate,        \* the validate argument
    loaded           \* what load_agents_config returned, or the exception it raised

routeVars == <<agents, fallback_agent, rpc, query, target, candidates, result,
               snapshots>>
pipeVars  == <<ppc, event_emitter, agent_tree, out, consumed, requests>>
execVars  == <<delegation_factory, registered, xpc, event_queue, sent, attempts>>
loadVars  == <<config_file, validate, loaded>>
vars      == <<agents, fallback_agent, rpc, query, target, candidates, result,
               snapshots, ppc, event_emitter, agent_tree, out, consumed, requests,
               delegation_factory, registered, xpc, event_queue, sent, attempts,
               config_file, validate, loaded>>

(***************************************************************************)
(* Bounds                                                                  *)
(***************************************************************************)
MaxQueryLen == 2
MaxEvents == 3
MaxReloads == 1
MaxEntries == 2
MaxNameLen == 2

(***************************************************************************)
(* Characters and strings                                                  *)
(***************************************************************************)
QueryChars == {"A", "b"}

\* str.lower() on one character
LowerChar(c) ==
    IF c = "A" THEN "a" ELSE IF c = "B" THEN "b" ELSE c

\* str.lower()
Lower(s) == [i \in 1..Len(s) |-> LowerChar(s[i])]

\* Python's  k in q  on strings: k is a contiguous substring of q
Contains(k, q) ==
    \E i \in 0..(Len(q) - Len(k)) : SubSeq(q, i + 1, i + Len(k)) = k

Strings(n) == UNION {[1..m -> QueryChars] : m \in 0..n}
Queries == Strings(MaxQueryLen)

(***************************************************************************)
(* Regular expressions: literal characters, "." and an unbalanced "(",     *)
(* which makes re.search raise re.error.                                   *)
(***************************************************************************)
PatternValid(p) == \A i \in 1..Len(p) : p[i] # "("

ReCharMatch(pc, qc) == pc = "." \/ LowerChar(pc) = LowerChar(qc)

\* re.search(pattern, query, re.IGNORECASE) for a pattern that compiles
ReSearch(p, q) ==
    \E i \in 0..(Len(q) - Len(p)) :
        \A j \in 1..Len(p) : ReCharMatch(p[j], q[i + j])

(***************************************************************************)
(* The catalog (models.py, config_loader.py)                               *)
(***************************************************************************)
Min(a, b) == IF a <= b THEN a ELSE b

\* AgentStatus
Statuses == {"active", "inactive", "degraded"}

\* the names of the catalog entries, in the order of the configuration file
CatalogNames == <<"hr-expert", "it-expert">>

\* RoutingRule.priority values of the configuration files considered
Priorities == {0 - 100, 0, 10}

\* RoutingRule.keywords / RoutingRule.patterns of the configuration files considered
KeywordLists == { <<>>, << <<"b">>, <<"A">> >> }
PatternLists == { <<>>, << <<"(">>, <<"a">> >> }

\* AgentConfig, with its RoutingRule flattened into it
AgentConfig(n) ==
    [name : {n}, status : Statuses, keywords : KeywordLists,
     patterns : PatternLists, priority : Priorities]

\* what load_agents_config can return: name -> AgentConfig, in file order
Catalogs ==
    UNION { {c \in [1..m -> UNION {AgentConfig(CatalogNames[i]) : i \in 1..m}] :
                 \A i \in 1..m : c[i].name = CatalogNames[i]}
            : m \in 0..Len(CatalogNames) }

\* fallback_agent values the orchestrator is constructed with
Fallbacks == {"general-assistant", ""}

\* target_agent values of a request; "" stands for every falsy value
\* (no handoff_context, no context_data, no target_agent, empty string)
NoTarget == ""
Targets == {NoTarget, "hr-expert", "it-expert", "jira-agent"}

\* the entries that setup registers with the delegation factory
ActiveNames(cat) == {cat[i].name : i \in {j \in 1..Len(cat) : cat[j].status = "active"}}

InCatalog(cat, n) == \E i \in 1..Len(cat) : cat[i].name = n
Entry(cat, n) == cat[CHOOSE i \in 1..Len(cat) : cat[i].name = n]

(***************************************************************************)
(* RoutingResult (models.py): the confidence field is bounded              *)
(***************************************************************************)
ValidationError == [kind |-> "raised", error |-> "ValidationError"]
NoResult == [kind |-> "none"]

RoutingResult(sel, conf, reason, fbs) ==
    IF conf < 0 \/ conf > 100
    THEN ValidationError
    ELSE [kind |-> "result", selected_agent |-> sel, confidence |-> conf,
          routing_reason |-> reason, fallback_agents |-> fbs]

(***************************************************************************)
(* OrchestratorAgent.route                                                 *)
(***************************************************************************)
\* sorted(seq, key, reverse=True): stable, descending by Key
\* rank of element i = number of elements that come before it
SortRank(s, key, i) ==
    Cardinality({j \in 1..Len(s) : key[j] > key[i]})
    + Cardinality({j \in 1..(i - 1) : key[j] = key[i]}) + 1

StableSortDesc(s, key) ==
    [r \in 1..Len(s) |-> s[CHOOSE i \in 1..Len(s) : SortRank(s, key, i) = r]]

\* a plausible slip: the sort by priority is not stable, entries of equal priority
\* come out in reverse catalog order
SortedAgents_TiesReversed(cat) ==
    LET rev == [i \in 1..Len(cat) |-> cat[Len(cat) + 1 - i]]
    IN  StableSortDesc(rev, [i \in 1..Len(rev) |-> rev[i].priority])

\* sorted(self._agents.items(), key=priority, reverse=True)
SortedAgents(cat) ==
    StableSortDesc(cat, [i \in 1..Len(cat) |-> cat[i].priority])

\* the keyword loop: the first keyword contained in the lowercased query
MatchingKeywords(a, q) ==
    {i \in 1..Len(a.keywords) : Contains(Lower(a.keywords[i]), Lower(q))}

\* a plausible slip: the try block encloses the whole pattern loop, so that the
\* patterns after one that does not compile are not evaluated
MatchingPatterns_StopAtInvalid(a, q) ==
    {i \in 1..Len(a.patterns) :
        /\ \A j \in 1..i : PatternValid(a.patterns[j])
        /\ ReSearch(a.patterns[i], q)}

\* the pattern loop: the first pattern that compiles and matches the query
MatchingPatterns(a, q) ==
    {i \in 1..Len(a.patterns) :
        PatternValid(a.patterns[i]) /\ ReSearch(a.patterns[i], q)}

First(S) == CHOOSE i \in S : \A j \in S : i <= j

\* a plausible slip: the priority bonus is not capped
KeywordCandidate_NoCap(a, q) ==
    [name |-> a.name, score |-> 90 + a.priority,
     reason |-> <<"keyword_match", a.keywords[First(MatchingKeywords(a, q))]>>]

KeywordCandidate(a, q) ==
    [name |-> a.name, score |-> 90 + Min(a.priority, 9),
     reason |-> <<"keyword_match", a.keywords[First(MatchingKeywords(a, q))]>>]

PatternCandidate(a, q) ==
    [name |-> a.name, score |-> 80 + Min(a.priority, 9),
     reason |-> <<"pattern_match", a.patterns[First(MatchingPatterns(a, q))]>>]

\* a plausible slip: only inactive entries are skipped, degraded ones are routed to
AgentCandidates_DegradedRouted(a, q) ==
    IF a.status = "inactive" THEN <<>>
    ELSE IF MatchingKeywords(a, q) # {} THEN <<KeywordCandidate(a, q)>>
    ELSE IF MatchingPatterns(a, q) # {} THEN <<PatternCandidate(a, q)>>
    ELSE <<>>

\* a plausible slip: the pattern loop runs although a keyword matched
AgentCandidates_NoKeywordFlag(a, q) ==
    IF a.status # "active" THEN <<>>
    ELSE (IF MatchingKeywords(a, q) # {} THEN <<KeywordCandidate(a, q)>> ELSE <<>>)
         \o (IF MatchingPatterns(a, q) # {} THEN <<PatternCandidate(a, q)>> ELSE <<>>)

\* one iteration of the loop over sorted_agents: what it appends to candidates
AgentCandidates(a, q) ==
    IF a.status # "active" THEN <<>>
    ELSE IF MatchingKeywords(a, q) # {} THEN <<KeywordCandidate(a, q)>>
    ELSE IF MatchingPatterns(a, q) # {} THEN <<PatternCandidate(a, q)>>
    ELSE <<>>

RECURSIVE CollectCandidates(_, _)
CollectCandidates(sorted, q) ==
    IF sorted = <<>> THEN <<>>
    ELSE AgentCandidates(Head(sorted), q) \o CollectCandidates(Tail(sorted), q)

\* candidates after  candidates.sort(key=score, reverse=True)
RouteCandidates(cat, q) ==
    LET c == CollectCandidates(SortedAgents(cat), q)
    IN  StableSortDesc(c, [i \in 1..Len(c) |-> c[i].score])

Names(cs) == [i \in 1..Len(cs) |-> cs[i].name]
InSeq(x, s) == \E i \in 1..Len(s) : s[i] = x

\* fallbacks = [c[0] for c in candidates[1:3]] + [fallback_agent] if new
FallbackList(cs, fb) ==
    LET next == Names(SubSeq(cs, 2, Min(3, Len(cs))))
    IN  IF fb # "" /\ ~InSeq(fb, next) THEN Append(next, fb) ELSE next

\* a plausible slip: the no-match branch lists the fallback agent as an alternate
Route_NoMatchListsFallback(cat, fb, q) ==
    LET cs == RouteCandidates(cat, q)
    IN  IF cs # <<>>
        THEN RoutingResult(cs[1].name, cs[1].score, cs[1].reason, FallbackList(cs, fb))
        ELSE RoutingResult(fb, 50, <<"no_match:fallback">>, <<fb>>)

Route(cat, fb, q) ==
    LET cs == RouteCandidates(cat, q)
    IN  IF cs # <<>>
        THEN RoutingResult(cs[1].name, cs[1].score, cs[1].reason, FallbackList(cs, fb))
        ELSE RoutingResult(fb, 50, <<"no_match:fallback">>, <<>>)

(***************************************************************************)
(* OrchestratorAgent.route_by_parameter and smart_route                    *)
(***************************************************************************)
None == [kind |-> "None"]

\* a plausible slip: the status of the target is not checked
RouteByParameter_NoStatusCheck(cat, fb, t) ==
    IF t = NoTarget THEN None
    ELSE IF ~InCatalog(cat, t) THEN None
    ELSE RoutingResult(t, 100, <<"parameter:target_agent">>,
                       IF fb # "" THEN <<fb>> ELSE <<>>)

RouteByParameter(cat, fb, t) ==
    IF t = NoTarget THEN None
    ELSE IF ~InCatalog(cat, t) THEN None
    ELSE IF Entry(cat, t).status # "active" THEN None
    ELSE RoutingResult(t, 100, <<"parameter:target_agent">>,
                       IF fb # "" THEN <<fb>> ELSE <<>>)

\* a plausible slip: the rules are tried before the override
SmartRoute_RulesFirst(cat, fb, q, t) ==
    IF RouteCandidates(cat, q) # <<>>
    THEN Route(cat, fb, q)
    ELSE IF RouteByParameter(cat, fb, t) # None
    THEN RouteByParameter(cat, fb, t)
    ELSE Route(cat, fb, q)

SmartRoute(cat, fb, q, t) ==
    IF RouteByParameter(cat, fb, t) # None
    THEN RouteByParameter(cat, fb, t)
    ELSE Route(cat, fb, q)

(***************************************************************************)
(* Routing: state machine of one orchestrator and its callers              *)
(***************************************************************************)
\* agent_tree as Pipe.pipe creates it for a request
NewAgentTree ==
    [agents |-> <<>>, has_status |-> FALSE, answer_started |-> FALSE,
     trajectory |-> <<>>]

\* a configuration file as load_agents_config finds it: absent, or the list of
\* entries under "agents" (no entry: an empty file or an empty list)
ConfigFile(exists, entries) == [exists |-> exists, entries |-> entries]
MissingFile == ConfigFile(FALSE, <<>>)
NotLoaded == [kind |-> "none"]

\* load_agents_config is not running
LoadIdle ==
    /\ config_file = MissingFile
    /\ validate = TRUE
    /\ loaded = NotLoaded

\* no delegation factory yet, no request in the executor
ExecIdle ==
    /\ delegation_factory = FALSE
    /\ registered = {}
    /\ xpc = "idle"
    /\ event_queue = <<>>
    /\ sent = "none"
    /\ attempts = <<>>

\* the locals of one call of Pipe.pipe
Request(pc, em, tree, items, frames) ==
    [ppc |-> pc, event_emitter |-> em, agent_tree |-> tree, out |-> items,
     consumed |-> frames]

NoRequest == Request("idle", FALSE, NewAgentTree, <<>>, <<>>)

\* the calls of pipe that one Pipe instance serves at the same time
Requests == {1, 2}

PipeIdle ==
    /\ ppc = "idle"
    /\ event_emitter = FALSE
    /\ agent_tree = NewAgentTree
    /\ out = <<>>
    /\ consumed = <<>>
    /\ requests = [r \in Requests |-> NoRequest]

\* OrchestratorAgent.__init__: empty catalog, the fallback agent as given
InitRoute ==
    /\ agents = <<>>
    /\ fallback_agent \in Fallbacks
    /\ rpc = "new"
    /\ query = <<>>
    /\ target = NoTarget
    /\ candidates = <<>>
    /\ result = NoResult
    /\ snapshots = {}
    /\ PipeIdle
    /\ ExecIdle
    /\ LoadIdle

\* OrchestratorAgent.setup: the catalog is loaded from the configuration file
Setup ==
    /\ rpc = "new"
    /\ agents' \in Catalogs
    /\ delegation_factory' = TRUE
    /\ registered' = ActiveNames(agents')
    /\ rpc' = "ready"
    /\ UNCHANGED <<fallback_agent, query, target, candidates, result, snapshots>>
    /\ UNCHANGED <<xpc, event_queue, sent, attempts>>
    /\ UNCHANGED pipeVars
    /\ UNCHANGED loadVars

\* a caller runs smart_route(query, handoff_context)
SmartRouteCall ==
    /\ rpc = "ready"
    /\ \E q \in Queries, t \in Targets :
         /\ query' = q
         /\ target' = t
         /\ candidates' = IF RouteByParameter(agents, fallback_agent, t) # None
                          THEN <<>>
                          ELSE RouteCandidates(agents, q)
         /\ result' = SmartRoute(agents, fallback_agent, q, t)
    /\ snapshots' = {agents}
    /\ rpc' = "routed"
    /\ UNCHANGED <<agents, fallback_agent>>
    /\ UNCHANGED pipeVars
    /\ UNCHANGED loadVars
    /\ UNCHANGED execVars

\* the caller has taken the decision (or the exception); the next request may come
RouteReturn ==
    /\ rpc = "routed"
    /\ rpc' = "ready"
    /\ query' = <<>>
    /\ target' = NoTarget
    /\ candidates' = <<>>
    /\ result' = NoResult
    /\ snapshots' = {}
    /\ UNCHANGED <<agents, fallback_agent>>
    /\ UNCHANGED pipeVars
    /\ UNCHANGED loadVars
    /\ UNCHANGED execVars

NextRoute == Setup \/ SmartRouteCall \/ RouteReturn

SpecRoute == InitRoute /\ [][NextRoute]_vars

(***************************************************************************)
(* Routing over ranked catalogs: priorities around the +0.09 cap and far   *)
(* below zero, up to four experts, the fallback agent itself in the        *)
(* catalog.  Callers run route(query) directly.                            *)
(***************************************************************************)
\* the request of the route docstring; one letter stands for each character
\* of "我想請假三天", and HrKeyword for "請假"
ScenarioQuery == <<"w", "x", "q", "j", "s", "t">>
HrKeyword == <<"q", "j">>

\* queries: the scenario (keyword and pattern match), pattern only, nothing
RankQueries == {ScenarioQuery, <<"s", "t">>, <<>>}

\* RoutingRule.keywords / patterns: one keyword, one pattern, or no rule
RankRules ==
    { [keywords |-> <<HrKeyword>>, patterns |-> <<>>],
      [keywords |-> <<>>, patterns |-> << <<"s", ".">> >>],
      [keywords |-> <<>>, patterns |-> <<>>] }

\* RoutingRule.priority: any integer; below and above the cap, far below zero
CapPriorities == {0 - 100, 0 - 95, 0 - 5, 0, 9, 10, 11}
FewPriorities == {0 - 100, 0, 10}

RankedConfig(n, stats, rules, prios) ==
    { [name |-> n, status |-> s, keywords |-> r.keywords,
       patterns |-> r.patterns, priority |-> p] :
          s \in stats, r \in rules, p \in prios }

\* catalogs of the first m of the names, in file order
RECURSIVE CatalogsUpTo(_, _, _, _, _)
CatalogsUpTo(names, stats, rules, prios, m) ==
    IF m = 0 THEN {<<>>}
    ELSE { Append(c, a) : c \in CatalogsUpTo(names, stats, rules, prios, m - 1),
                          a \in RankedConfig(names[m], stats, rules, prios) }

CatalogsOf(names, stats, rules, prios) ==
    UNION { CatalogsUpTo(names, stats, rules, prios, m) : m \in 0..Len(names) }

RankNames == <<"hr-expert", "general-assistant", "it-expert", "ops-expert">>

\* rules with an empty string: '' as keyword, '' as pattern
EmptyStringRules ==
    { [keywords |-> << <<>>, HrKeyword >>, patterns |-> <<>>],
      [keywords |-> <<>>, patterns |-> << <<>> >>],
      [keywords |-> <<HrKeyword>>, patterns |-> <<>>] }

RankedCatalogs ==
    CatalogsOf(CatalogNames, {"active", "inactive"}, RankRules, CapPriorities)
    \cup CatalogsOf(RankNames, {"active"}, RankRules, FewPriorities)
    \cup CatalogsOf(CatalogNames, {"active", "inactive"}, EmptyStringRules, {0})

\* OrchestratorAgent.setup with one of the ranked configuration files
SetupRanked ==
    /\ rpc = "new"
    /\ agents' \in RankedCatalogs
    /\ delegation_factory' = TRUE
    /\ registered' = ActiveNames(agents')
    /\ rpc' = "ready"
    /\ UNCHANGED <<fallback_agent, query, target, candidates, result, snapshots>>
    /\ UNCHANGED <<xpc, event_queue, sent, attempts>>
    /\ UNCHANGED pipeVars
    /\ UNCHANGED loadVars

\* a caller runs route(query): no handoff context is involved
RouteCall ==
    /\ rpc = "ready"
    /\ \E q \in RankQueries :
         /\ query' = q
         /\ candidates' = RouteCandidates(agents, q)
         /\ result' = Route(agents, fallback_agent, q)
    /\ target' = NoTarget
    /\ snapshots' = {agents}
    /\ rpc' = "routed"
    /\ UNCHANGED <<agents, fallback_agent>>
    /\ UNCHANGED pipeVars
    /\ UNCHANGED loadVars
    /\ UNCHANGED execVars

NextRank == SetupRanked \/ RouteCall \/ RouteReturn

SpecRank == InitRoute /\ [][NextRank]_vars

(***************************************************************************)
(* Pipe: text parts and their classification                               *)
(***************************************************************************)
ThinkingEventTypes ==
    {"agent_start", "llm_thinking", "tool_decision", "tool_start", "tool_end",
     "sub_agent_status"}

HiddenEventTypes == {"agent_end"}

\* a part without metadata (metadata None or {})
NoMetadata == [event_type |-> "", is_propagated |-> FALSE, tool_name |-> "", present |-> FALSE]

Metadata(et, prop, tool) ==
    [event_type |-> et, is_propagated |-> prop, tool_name |-> tool, present |-> TRUE]

\* a message part as _get_part_info reads it: (text, metadata); text "" is falsy
Part(text, metadata) == [text |-> text, metadata |-> metadata]

ThinkPart   == Part("Analyzing", Metadata("llm_thinking", FALSE, ""))
ToolPart    == Part("Calling X", Metadata("tool_start", FALSE, "X"))
HiddenPart  == Part("bye", Metadata("agent_end", FALSE, ""))
RegularPart == Part("note", NoMetadata)
AnswerPart  == Part("answer", NoMetadata)
SilentPart  == Part("", Metadata("llm_thinking", FALSE, ""))

\* a plausible slip: every event propagated from a sub-agent counts as thinking
IsThinkingEvent_PropagatedAlways(metadata) ==
    IF ~metadata.present THEN FALSE
    ELSE IF metadata.is_propagated
         THEN TRUE
         ELSE metadata.event_type \in ThinkingEventTypes

\* Pipe._is_thinking_event
IsThinkingEvent(metadata) ==
    IF ~metadata.present THEN FALSE
    ELSE IF metadata.is_propagated
         THEN metadata.event_type \in ThinkingEventTypes
         ELSE metadata.event_type \in ThinkingEventTypes

\* Pipe._is_hidden_event
IsHiddenEvent(metadata) ==
    IF ~metadata.present THEN FALSE
    ELSE metadata.event_type \in HiddenEventTypes

(***************************************************************************)
(* Pipe: the frames of the SSE stream                                      *)
(***************************************************************************)
\* one  data: {...}  line. wrapped: the event sits under the key "result".
\* parts: the parts of status.message / artifact / message (of the artifacts for a
\* task); msg: the parts of a task's status.message.
Frame(kind, wrapped, parts, msg, agent, state, tool) ==
    [kind |-> kind, wrapped |-> wrapped, parts |-> parts, msg |-> msg,
     agent |-> agent, state |-> state, tool |-> tool]

StatusFrame(wrapped, parts, state) ==
    Frame("status-update", wrapped, parts, <<>>, "task-1", state, "")
ArtifactFrame(wrapped, parts) ==
    Frame("artifact-update", wrapped, parts, <<>>, "", "", "")
MessageFrame(wrapped, parts) ==
    Frame("message", wrapped, parts, <<>>, "", "", "")
ToolCallFrame == Frame("tool-call", FALSE, <<>>, <<>>, "task-1", "", "X")
TaskFrame(parts) == Frame("task", TRUE, parts, <<RegularPart>>, "task-1", "completed", "")
ErrorFrame == Frame("error", FALSE, <<>>, <<>>, "", "", "")
MalformedFrame == Frame("malformed", FALSE, <<>>, <<>>, "", "", "")
\* a line whose JSON decodes to something that is not an object (a number, null)
NonObjectFrame == Frame("non-object", FALSE, <<>>, <<>>, "", "", "")

Frames ==
    {StatusFrame(FALSE, ps, "working") :
        ps \in {<<ThinkPart>>, <<ToolPart>>, <<RegularPart>>, <<SilentPart>>, <<>>}}
    \cup {StatusFrame(FALSE, <<HiddenPart>>, "completed"),
          StatusFrame(TRUE, <<ThinkPart>>, "working"),
          StatusFrame(TRUE, <<HiddenPart>>, "completed")}
    \cup {ArtifactFrame(FALSE, <<AnswerPart>>), ArtifactFrame(FALSE, <<HiddenPart>>),
          ArtifactFrame(TRUE, <<AnswerPart>>)}
    \cup {MessageFrame(FALSE, <<AnswerPart>>), MessageFrame(FALSE, <<HiddenPart>>),
          MessageFrame(TRUE, <<AnswerPart>>)}
    \cup {ToolCallFrame, TaskFrame(<<HiddenPart>>), ErrorFrame, MalformedFrame}

(***************************************************************************)
(* Pipe: what reaches the caller                                           *)
(***************************************************************************)
\* channel "yield": a chunk yielded by the generator; channel "emitter": a status
\* notification sent through __event_emitter__. what: the content of the item.
\* ev: the index of the frame it comes from (0: from Pipe.pipe itself).
Item(channel, what, text, done, block, ev) ==
    [channel |-> channel, what |-> what, text |-> text, done |-> done,
     block |-> block, ev |-> ev]

TextItem(text, ev) == Item("yield", "text", text, FALSE, <<>>, ev)
ErrorItem(text, ev) == Item("yield", "error", text, FALSE, <<>>, ev)
TrajectoryItem(block, ev) == Item("yield", "trajectory", "", FALSE, block, ev)

\* Pipe._emit_status: nothing without an event emitter
EmitStatus(em, text, done, ev) ==
    IF em THEN <<Item("emitter", "status", text, done, <<>>, ev)>> ELSE <<>>

\* Pipe._render_trajectory: "" for an empty trajectory, else one block with one
\* formatted line per entry
RenderTrajectory(tree, ev) ==
    IF tree.trajectory = <<>> THEN <<>>
    ELSE <<TrajectoryItem([i \in 1..Len(tree.trajectory) |->
                              [event_type |-> tree.trajectory[i].event_type,
                               text |-> tree.trajectory[i].text]], ev)>>

\* for part in parts: text = _get_part_text(part); if text: yield text
YieldTexts(parts, ev) ==
    LET shown == SelectSeq(parts, LAMBDA p : p.text # "")
    IN  [i \in 1..Len(shown) |-> TextItem(shown[i].text, ev)]

(***************************************************************************)
(* Pipe._handle_sse_event and Pipe._extract_from_result                    *)
(* Each handler maps (frame, agent_tree) to the new agent_tree and the     *)
(* items it hands out, in order.                                           *)
(***************************************************************************)
Step(tree, items) == [tree |-> tree, out |-> items]

ToolName(metadata) == IF metadata.tool_name = "" THEN "unknown" ELSE metadata.tool_name

\* agent_tree["agents"][agent_name]["tools_called"].append(tool_name), if present
RecordTool(tree, agent_name, tool_name) ==
    IF agent_name \in DOMAIN tree.agents
    THEN [tree EXCEPT !.agents[agent_name].tools_called = Append(@, tool_name)]
    ELSE tree

\* a thinking part of a status message: has_status, the trajectory entry and, on the
\* bare path only, the tool of a tool_start
ThinkingUpdate(tree, p, agent_name, track_tools) ==
    LET t == [tree EXCEPT !.has_status = TRUE,
                          !.trajectory = Append(@, [text |-> p.text,
                                                    event_type |-> p.metadata.event_type,
                                                    metadata |-> p.metadata])]
    IN  IF track_tools /\ p.metadata.event_type = "tool_start"
        THEN RecordTool(t, agent_name, ToolName(p.metadata))
        ELSE t

\* the loop over the parts of a status message
RECURSIVE StatusParts(_, _, _, _, _, _)
StatusParts(parts, acc, em, agent_name, track_tools, ev) ==
    IF parts = <<>> THEN acc
    ELSE LET p == Head(parts)
             next ==
                 IF p.text = "" THEN acc
                 ELSE IF IsHiddenEvent(p.metadata) THEN acc
                 ELSE IF IsThinkingEvent(p.metadata)
                      THEN Step(ThinkingUpdate(acc.tree, p, agent_name, track_tools),
                                acc.out \o EmitStatus(em, p.text, FALSE, ev))
                      ELSE Step(acc.tree, Append(acc.out, TextItem(p.text, ev)))
         IN  StatusParts(Tail(parts), next, em, agent_name, track_tools, ev)

\* a plausible slip: answer_started is not set, the block is rendered again
AnswerTransition_NoFlag(tree, em, ev) ==
    IF tree.has_status /\ ~tree.answer_started
    THEN Step(tree, EmitStatus(em, "Completed", TRUE, ev) \o RenderTrajectory(tree, ev))
    ELSE Step(tree, <<>>)

\* artifact-update: clear the status and render the trajectory when the answer starts
AnswerTransition(tree, em, ev) ==
    IF tree.has_status /\ ~tree.answer_started
    THEN Step([tree EXCEPT !.answer_started = TRUE],
              EmitStatus(em, "Completed", TRUE, ev) \o RenderTrajectory(tree, ev))
    ELSE Step(tree, <<>>)

\* a plausible slip: the answer text is handed out before the trajectory block
HandleArtifactUpdate_TextFirst(f, tree, em, ev) ==
    LET t == AnswerTransition(tree, em, ev)
    IN  Step(t.tree, YieldTexts(f.parts, ev) \o t.out)

HandleArtifactUpdate(f, tree, em, ev) ==
    LET t == AnswerTransition(tree, em, ev)
    IN  Step(t.tree, t.out \o YieldTexts(f.parts, ev))

\* a plausible slip: the message branch hands out nothing
HandleMessage_Dropped(f, tree, em, ev) == Step(tree, <<>>)

\* kind "message", on both paths
HandleMessage(f, tree, em, ev) == Step(tree, YieldTexts(f.parts, ev))

\* bare status-update: the agent map, then the parts
HandleStatusUpdate(f, tree, em, ev) ==
    LET agent_name == IF f.agent = "" THEN "unknown" ELSE f.agent
        t == IF agent_name \notin DOMAIN tree.agents
             THEN [tree EXCEPT !.agents =
                      (agent_name :> [state |-> f.state, tools_called |-> <<>>]) @@ @]
             ELSE [tree EXCEPT !.agents[agent_name].state = f.state]
    IN  StatusParts(f.parts, Step(t, <<>>), em, agent_name, TRUE, ev)

\* bare tool-call
HandleToolCall(f, tree, em, ev) ==
    Step(RecordTool(tree, IF f.agent = "" THEN "unknown" ELSE f.agent,
                    IF f.tool = "" THEN "unknown" ELSE f.tool), <<>>)

\* wrapped task: the agent map entry is replaced; the artifacts' texts, or the
\* status message's texts when there is no artifact
ExtractTask(f, tree, em, ev) ==
    LET task_id == IF f.agent = "" THEN "unknown" ELSE f.agent
        t == [tree EXCEPT !.agents =
                 (task_id :> [state |-> f.state, tools_called |-> <<>>])
                 @@ [a \in (DOMAIN @) \ {task_id} |-> @[a]]]
    IN  Step(t, IF f.parts # <<>> THEN YieldTexts(f.parts, ev) ELSE YieldTexts(f.msg, ev))

\* Pipe._extract_from_result
ExtractFromResult(f, tree, em, ev) ==
    CASE f.kind = "message" -> HandleMessage(f, tree, em, ev)
      [] f.kind = "task" -> ExtractTask(f, tree, em, ev)
      [] f.kind = "status-update" ->
            StatusParts(f.parts, Step(tree, <<>>), em, "", FALSE, ev)
      [] f.kind = "artifact-update" -> HandleArtifactUpdate(f, tree, em, ev)
      [] OTHER -> Step(tree, <<>>)

\* Pipe._handle_sse_event
HandleSseEvent(f, tree, em, ev) ==
    IF f.wrapped THEN ExtractFromResult(f, tree, em, ev)
    ELSE IF f.kind = "error" THEN Step(tree, <<ErrorItem("**Error:**", ev)>>)
    ELSE CASE f.kind = "status-update" -> HandleStatusUpdate(f, tree, em, ev)
           [] f.kind = "artifact-update" -> HandleArtifactUpdate(f, tree, em, ev)
           [] f.kind = "tool-call" -> HandleToolCall(f, tree, em, ev)
           [] f.kind = "message" -> HandleMessage(f, tree, em, ev)
           [] OTHER -> Step(tree, <<>>)

\* one iteration of the loop of Pipe._process_sse_stream: a line that does not
\* decode is skipped, the chunks of any other frame are passed on
ProcessLine(f, tree, em, ev) ==
    IF f.kind = "malformed" THEN Step(tree, <<>>)
    ELSE HandleSseEvent(f, tree, em, ev)

(***************************************************************************)
(* Pipe.pipe: state machine of one request                                 *)
(***************************************************************************)
RouteIdle ==
    /\ agents = <<>>
    /\ fallback_agent = "general-assistant"
    /\ rpc = "new"
    /\ query = <<>>
    /\ target = NoTarget
    /\ candidates = <<>>
    /\ result = NoResult
    /\ snapshots = {}

InitPipe == PipeIdle /\ RouteIdle /\ ExecIdle /\ LoadIdle

\* pipe() is called with a message: the request state is created, the first status
\* is emitted, the request is posted and answered with an SSE stream
PipeStart ==
    /\ ppc = "idle"
    /\ \E em \in BOOLEAN :
         /\ event_emitter' = em
         /\ out' = EmitStatus(em, "Sending", FALSE, 0)
    /\ agent_tree' = NewAgentTree
    /\ consumed' = <<>>
    /\ ppc' = "streaming"
    /\ UNCHANGED requests
    /\ UNCHANGED routeVars
    /\ UNCHANGED execVars
    /\ UNCHANGED loadVars

\* requests.post fails (Timeout, ConnectionError, HTTP error): one error chunk
PipeRequestFails ==
    /\ ppc = "idle"
    /\ \E em \in BOOLEAN :
         /\ event_emitter' = em
         /\ out' = EmitStatus(em, "Sending", FALSE, 0) \o <<ErrorItem("**Error:**", 0)>>
    /\ agent_tree' = NewAgentTree
    /\ consumed' = <<>>
    /\ ppc' = "done"
    /\ UNCHANGED requests
    /\ UNCHANGED routeVars
    /\ UNCHANGED execVars
    /\ UNCHANGED loadVars

\* the next line of the stream is read and handled; its chunks are yielded
ConsumeFrame ==
    /\ ppc = "streaming"
    /\ Len(consumed) < MaxEvents
    /\ \E f \in Frames :
         LET r == ProcessLine(f, agent_tree, event_emitter, Len(consumed) + 1)
         IN  /\ consumed' = Append(consumed, f)
             /\ agent_tree' = r.tree
             /\ out' = out \o r.out
    /\ UNCHANGED <<ppc, event_emitter>>
    /\ UNCHANGED requests
    /\ UNCHANGED routeVars
    /\ UNCHANGED execVars
    /\ UNCHANGED loadVars

\* the next line decodes to a JSON value that is not an object:  "result" in data
\* raises TypeError inside _handle_sse_event, _process_sse_stream lets it pass, and
\* the except Exception branch of pipe yields one error chunk and ends the request
ConsumeNonObject ==
    /\ ppc = "streaming"
    /\ Len(consumed) < MaxEvents
    /\ consumed' = Append(consumed, NonObjectFrame)
    /\ out' = Append(out, ErrorItem("**Error:**", Len(consumed) + 1))
    /\ ppc' = "done"
    /\ UNCHANGED <<event_emitter, agent_tree>>
    /\ UNCHANGED requests
    /\ UNCHANGED routeVars
    /\ UNCHANGED execVars
    /\ UNCHANGED loadVars

\* the stream ends; with the default valves no footer is added
StreamEnd ==
    /\ ppc = "streaming"
    /\ ppc' = "done"
    /\ UNCHANGED <<event_emitter, agent_tree, out, consumed>>
    /\ UNCHANGED requests
    /\ UNCHANGED routeVars
    /\ UNCHANGED execVars
    /\ UNCHANGED loadVars

NextPipe ==
    PipeStart \/ PipeRequestFails \/ ConsumeFrame \/ ConsumeNonObject \/ StreamEnd

SpecPipe == InitPipe /\ [][NextPipe]_vars

(***************************************************************************)
(* Pipe: the classification of the parts of status messages                *)
(***************************************************************************)
\* metadata.get("event_type", ""): the known types, another type, no such key
EventTypes == ThinkingEventTypes \cup HiddenEventTypes \cup {"custom", ""}

\* the metadata a part can carry: none (None or {}), or a dict with any event
\* type, with and without is_propagated
AllMetadata ==
    {NoMetadata} \cup {Metadata(et, prop, "") : et \in EventTypes, prop \in BOOLEAN}

\* status-update events with one part that has text
ClassifiedFrames ==
    {StatusFrame(FALSE, <<Part("note", md)>>, "working") : md \in AllMetadata}

\* the if / elif / else chain over a part with text in the status-update branch
Classify(metadata) ==
    IF IsHiddenEvent(metadata) THEN "hidden"
    ELSE IF IsThinkingEvent(metadata) THEN "thinking"
    ELSE "regular"

\* the next line of the stream is a status-update with one part to classify
ConsumeClassified ==
    /\ ppc = "streaming"
    /\ Len(consumed) < MaxEvents
    /\ \E f \in ClassifiedFrames :
         LET r == ProcessLine(f, agent_tree, event_emitter, Len(consumed) + 1)
         IN  /\ consumed' = Append(consumed, f)
             /\ agent_tree' = r.tree
             /\ out' = out \o r.out
    /\ UNCHANGED <<ppc, event_emitter>>
    /\ UNCHANGED requests
    /\ UNCHANGED routeVars
    /\ UNCHANGED execVars
    /\ UNCHANGED loadVars

NextClassify == PipeStart \/ ConsumeClassified \/ StreamEnd

SpecClassify == InitPipe /\ [][NextClassify]_vars

(***************************************************************************)
(* Pipe.pipe: several requests on one Pipe instance, their events          *)
(* interleaved                                                             *)
(***************************************************************************)
\* the events of the interleaved streams
ConcurrentFrames ==
    {StatusFrame(FALSE, <<ThinkPart>>, "working"),
     ArtifactFrame(FALSE, <<AnswerPart>>),
     ToolCallFrame}

\* a plausible slip: agent_tree is kept on the Pipe instance, so that every call
\* reads the tree of the first one
TreeOf_OnInstance(reqs, r) == reqs[1].agent_tree

\* the agent_tree that the handlers of request r are given: the local of its call
TreeOf(reqs, r) == reqs[r].agent_tree

RequestStart(r) ==
    /\ requests[r].ppc = "idle"
    /\ \E em \in BOOLEAN :
         requests' = [requests EXCEPT ![r] =
             Request("streaming", em, NewAgentTree, EmitStatus(em, "Sending", FALSE, 0), <<>>)]
    /\ UNCHANGED <<ppc, event_emitter, agent_tree, out, consumed>>
    /\ UNCHANGED routeVars
    /\ UNCHANGED execVars
    /\ UNCHANGED loadVars

RequestConsume(r) ==
    /\ requests[r].ppc = "streaming"
    /\ Len(requests[r].consumed) < MaxEvents
    /\ \E f \in ConcurrentFrames :
         LET req == requests[r]
             step == ProcessLine(f, TreeOf(requests, r), req.event_emitter,
                                 Len(req.consumed) + 1)
         IN  requests' = [requests EXCEPT ![r] =
                 Request("streaming", req.event_emitter, step.tree,
                         req.out \o step.out, Append(req.consumed, f))]
    /\ UNCHANGED <<ppc, event_emitter, agent_tree, out, consumed>>
    /\ UNCHANGED routeVars
    /\ UNCHANGED execVars
    /\ UNCHANGED loadVars

RequestEnd(r) ==
    /\ requests[r].ppc = "streaming"
    /\ requests' = [requests EXCEPT ![r].ppc = "done"]
    /\ UNCHANGED <<ppc, event_emitter, agent_tree, out, consumed>>
    /\ UNCHANGED routeVars
    /\ UNCHANGED execVars
    /\ UNCHANGED loadVars

NextConcurrent ==
    \E r \in Requests : RequestStart(r) \/ RequestConsume(r) \/ RequestEnd(r)

SpecConcurrent == InitPipe /\ [][NextConcurrent]_vars

(***************************************************************************)
(* OrchestratorExecutor: direct delegation of a request with target_agent, *)
(* and OrchestratorAgent.reload_config                                     *)
(***************************************************************************)
\* TaskStatusUpdateEvent as _emit_status builds it
StatusEvent(text, final) ==
    [kind |-> "status-update", state |-> IF final THEN "completed" ELSE "working",
     final |-> final, name |-> "", text |-> text]

\* TaskArtifactUpdateEvent as _emit_text_artifact ("response") and _emit_error
\* ("error") build it
ArtifactEvent(name, text) ==
    [kind |-> "artifact-update", state |-> "", final |-> FALSE, name |-> name,
     text |-> text]

\* the catalogs of the configuration files the executor runs with: every expert
\* has the scenario keyword as its only rule
ExecCatalogs ==
    CatalogsOf(CatalogNames, {"active", "inactive"},
               {[keywords |-> <<HrKeyword>>, patterns |-> <<>>]}, {0})

\* DelegationToolFactory.send_message_direct: the sub-agent answers or the call
\* raises; an agent that was never registered cannot be reached
SendOutcomes(sel, reg) ==
    IF sel \in reg THEN {"returned", "send_raised"} ELSE {"unknown_target"}

\* a plausible slip: the completion status is emitted after the error as well
DirectDelegation_CompletesAfterError(factory, outcome) ==
    IF ~factory
    THEN <<ArtifactEvent("error", "DelegationFactory not initialized"),
           StatusEvent("completed", TRUE)>>
    ELSE IF outcome = "returned"
    THEN <<ArtifactEvent("response", "reply"), StatusEvent("completed", TRUE)>>
    ELSE <<ArtifactEvent("error", "Delegation failed"), StatusEvent("completed", TRUE)>>

\* the try block of _execute_direct_delegation_native: the events it enqueues
DirectDelegation(factory, outcome) ==
    IF ~factory
    THEN <<ArtifactEvent("error", "DelegationFactory not initialized")>>
    ELSE IF outcome = "returned"
    THEN <<ArtifactEvent("response", "reply"), StatusEvent("completed", TRUE)>>
    ELSE <<ArtifactEvent("error", "Delegation failed")>>

\* OrchestratorAgent.setup; the registration of an active agent may fail
SetupExec ==
    /\ rpc = "new"
    /\ agents' \in ExecCatalogs
    /\ delegation_factory' = TRUE
    /\ registered' \in SUBSET ActiveNames(agents')
    /\ rpc' = "ready"
    /\ UNCHANGED <<fallback_agent, query, target, candidates, result, snapshots>>
    /\ UNCHANGED <<xpc, event_queue, sent, attempts>>
    /\ UNCHANGED pipeVars
    /\ UNCHANGED loadVars

\* a smart_route call is between its first read of self._agents and its return
InCall == rpc \in {"member", "entry", "rules"}

\* OrchestratorAgent.reload_config: the catalog is replaced, nothing is registered
ReloadConfig ==
    /\ agents' \in ExecCatalogs
    /\ snapshots' = IF InCall THEN snapshots \cup {agents'} ELSE snapshots
    /\ Cardinality(snapshots') <= MaxReloads + 1
    /\ UNCHANGED <<fallback_agent, rpc, query, target, candidates, result>>
    /\ UNCHANGED execVars
    /\ UNCHANGED pipeVars
    /\ UNCHANGED loadVars

\* the calls of send_message_direct made by _execute_direct_delegation_native for
\* the decision r: a plausible slip retries with the fallback list after a failure
ExecutorSends_RetriesFallbacks(factory, outcome, r) ==
    IF ~factory THEN <<>>
    ELSE IF outcome = "returned" THEN <<r.selected_agent>>
    ELSE <<r.selected_agent>> \o r.fallback_agents

\* the calls of send_message_direct made by _execute_direct_delegation_native
ExecutorSends(factory, outcome, r) ==
    IF ~factory THEN <<>> ELSE <<r.selected_agent>>

\* the delegation tools _delegate_directly invokes: the one named after the target,
\* if the factory has it
AgentSends(factory, reg, r) ==
    IF factory /\ r.selected_agent \in reg THEN <<r.selected_agent>> ELSE <<>>

\* _delegate_directly: RuntimeError without a factory, ValueError without a tool for
\* the target, else the tool returns or raises
ToolOutcomes(factory, reg, sel) ==
    IF ~factory THEN {"RuntimeError"}
    ELSE IF sel \notin reg THEN {"ValueError"}
    ELSE {"tool_returned", "tool_raised"}

\* what the LLM graph does with a request: it answers by itself or calls one of the
\* delegation tools it was built with
GraphChoices(reg) == {<<>>} \cup {<<n>> : n \in reg}

\* OrchestratorExecutor.execute up to the first await of the delegation: the
\* override is evaluated and, if it is accepted, the "Delegating" status is enqueued
Execute ==
    /\ xpc = "idle"
    /\ \E q \in RankQueries, t \in Targets :
         LET r == RouteByParameter(agents, fallback_agent, t)
         IN  /\ query' = q
             /\ target' = t
             /\ result' = r
             /\ event_queue' = IF r # None THEN <<StatusEvent("Delegating", FALSE)>>
                                           ELSE <<>>
             /\ xpc' = IF r # None THEN "delegating" ELSE "standard"
    /\ snapshots' = {agents}
    /\ UNCHANGED <<agents, fallback_agent, rpc, candidates>>
    /\ UNCHANGED <<delegation_factory, registered, sent, attempts>>
    /\ UNCHANGED pipeVars
    /\ UNCHANGED loadVars

\* the try block of _execute_direct_delegation_native
Delegate ==
    /\ xpc = "delegating"
    /\ \E outcome \in SendOutcomes(result.selected_agent, registered) :
         /\ sent' = IF delegation_factory THEN outcome ELSE "no_factory"
         /\ event_queue' = event_queue \o DirectDelegation(delegation_factory, outcome)
         /\ attempts' = ExecutorSends(delegation_factory, outcome, result)
    /\ xpc' = "done"
    /\ UNCHANGED routeVars
    /\ UNCHANGED <<delegation_factory, registered>>
    /\ UNCHANGED pipeVars
    /\ UNCHANGED loadVars

\* OrchestratorAgent.invoke / stream up to the delegation: RuntimeError before
\* setup has built the graph, else the override is evaluated
AgentEntry ==
    /\ xpc = "idle"
    /\ \E q \in RankQueries, t \in Targets :
         LET r == RouteByParameter(agents, fallback_agent, t)
         IN  /\ query' = q
             /\ target' = t
             /\ result' = IF rpc = "new" THEN NoResult ELSE r
             /\ sent' = IF rpc = "new" THEN "RuntimeError" ELSE sent
             /\ xpc' = IF rpc = "new" THEN "done"
                       ELSE IF r # None THEN "direct" ELSE "standard"
    /\ snapshots' = {agents}
    /\ UNCHANGED <<agents, fallback_agent, rpc, candidates>>
    /\ UNCHANGED <<delegation_factory, registered, event_queue, attempts>>
    /\ UNCHANGED pipeVars
    /\ UNCHANGED loadVars

\* OrchestratorAgent._delegate_directly (_delegate_directly_stream yields its result)
DelegateDirectly ==
    /\ xpc = "direct"
    /\ sent' \in ToolOutcomes(delegation_factory, registered, result.selected_agent)
    /\ attempts' = AgentSends(delegation_factory, registered, result)
    /\ xpc' = "done"
    /\ UNCHANGED routeVars
    /\ UNCHANGED <<delegation_factory, registered, event_queue>>
    /\ UNCHANGED pipeVars
    /\ UNCHANGED loadVars

\* no accepted override: the LLM graph runs (MaskAgentExecutor.execute,
\* self._graph.ainvoke, self._graph.astream_events)
StandardExecution ==
    /\ xpc = "standard"
    /\ attempts' \in GraphChoices(registered)
    /\ sent' = "graph"
    /\ xpc' = "done"
    /\ UNCHANGED routeVars
    /\ UNCHANGED <<delegation_factory, registered, event_queue>>
    /\ UNCHANGED pipeVars
    /\ UNCHANGED loadVars

\* the entry point has returned; the next request may come
ExecuteReturn ==
    /\ xpc = "done"
    /\ xpc' = "idle"
    /\ query' = <<>>
    /\ target' = NoTarget
    /\ result' = NoResult
    /\ snapshots' = {}
    /\ event_queue' = <<>>
    /\ sent' = "none"
    /\ attempts' = <<>>
    /\ UNCHANGED <<agents, fallback_agent, rpc, candidates>>
    /\ UNCHANGED <<delegation_factory, registered>>
    /\ UNCHANGED pipeVars
    /\ UNCHANGED loadVars

NextExec ==
    SetupExec \/ ReloadConfig \/ Execute \/ Delegate \/ AgentEntry
    \/ DelegateDirectly \/ StandardExecution \/ ExecuteReturn

SpecExec == InitRoute /\ [][NextExec]_vars

(***************************************************************************)
(* smart_route read by read, with reload_config running in another thread. *)
(* self._agents is read three times: by the membership test and by the     *)
(* subscript of route_by_parameter, and by route.                          *)
(***************************************************************************)
KeyError == [kind |-> "raised", error |-> "KeyError"]

\* smart_route(query, handoff_context) is entered
SmartRouteBegin ==
    /\ rpc = "ready"
    /\ \E q \in RankQueries, t \in Targets :
         /\ query' = q
         /\ target' = t
         /\ rpc' = IF t = NoTarget THEN "rules" ELSE "member"
    /\ snapshots' = {agents}
    /\ UNCHANGED <<agents, fallback_agent, candidates, result>>
    /\ UNCHANGED pipeVars
    /\ UNCHANGED loadVars
    /\ UNCHANGED execVars

\* route_by_parameter:  if target_agent not in self._agents: return None
CheckMembership ==
    /\ rpc = "member"
    /\ rpc' = IF InCatalog(agents, target) THEN "entry" ELSE "rules"
    /\ UNCHANGED <<agents, fallback_agent, query, target, candidates, result, snapshots>>
    /\ UNCHANGED pipeVars
    /\ UNCHANGED loadVars
    /\ UNCHANGED execVars

\* route_by_parameter:  agent_config = self._agents[target_agent], the status check
\* and the decision of the override
ReadEntry ==
    /\ rpc = "entry"
    /\ IF ~InCatalog(agents, target)
       THEN result' = KeyError /\ rpc' = "routed"
       ELSE IF Entry(agents, target).status # "active"
       THEN result' = result /\ rpc' = "rules"
       ELSE /\ result' = RoutingResult(target, 100, <<"parameter:target_agent">>,
                                       IF fallback_agent # "" THEN <<fallback_agent>>
                                                              ELSE <<>>)
            /\ rpc' = "routed"
    /\ UNCHANGED <<agents, fallback_agent, query, target, candidates, snapshots>>
    /\ UNCHANGED pipeVars
    /\ UNCHANGED loadVars
    /\ UNCHANGED execVars

\* smart_route:  return self.route(query)
RunRules ==
    /\ rpc = "rules"
    /\ candidates' = RouteCandidates(agents, query)
    /\ result' = Route(agents, fallback_agent, query)
    /\ rpc' = "routed"
    /\ UNCHANGED <<agents, fallback_agent, query, target, snapshots>>
    /\ UNCHANGED pipeVars
    /\ UNCHANGED loadVars
    /\ UNCHANGED execVars

NextReload ==
    SetupExec \/ ReloadConfig \/ SmartRouteBegin \/ CheckMembership \/ ReadEntry
    \/ RunRules \/ RouteReturn

SpecReload == InitRoute /\ [][NextReload]_vars

(***************************************************************************)
(* load_agents_config (config_loader.py) and the validation of AgentConfig *)
(***************************************************************************)
\* agent names, character by character; NoName: the entry has no "name" key
NameChars == {"h", "H"}
NameStrings == UNION {[1..m -> NameChars] : m \in 0..MaxNameLen}
NoName == <<"?">>

\* AgentConfig.name: min_length=1, pattern ^[a-z][a-z0-9-]*$
NameValid(n) ==
    /\ Len(n) >= 1
    /\ n[1] = "h"
    /\ \A i \in 1..Len(n) : n[i] \in {"h", "-"}

\* one element of the "agents" list: a mapping with or without the required keys
\* name and url, or something that is not a mapping (a bare string, null)
FileEntries ==
    [mapping : {TRUE}, name : NameStrings \cup {NoName}, url : BOOLEAN]
    \cup {[mapping |-> FALSE, name |-> NoName, url |-> FALSE]}

\* AgentConfig(**agent_data) succeeds
EntryValid(e) == e.mapping /\ e.name # NoName /\ NameValid(e.name) /\ e.url

ConfigFiles ==
    {MissingFile}
    \cup {ConfigFile(TRUE, es) : es \in UNION {[1..m -> FileEntries] : m \in 0..MaxEntries}}

Raised(e) == [kind |-> "raised", error |-> e]
Catalog(c) == [kind |-> "catalog", agents |-> c]

\* agents[config.name] = config: a known name keeps its place in the dict
DictSet(acc, e) ==
    IF \E i \in 1..Len(acc) : acc[i].name = e.name
    THEN [i \in 1..Len(acc) |-> IF acc[i].name = e.name THEN e ELSE acc[i]]
    ELSE Append(acc, e)

\* the loop over agents_data. An entry that is not a mapping raises TypeError in
\* the try block; without validate the except branch then calls agent_data.get,
\* which raises AttributeError out of the handler
RECURSIVE LoadEntries(_, _, _)
LoadEntries(entries, acc, strict) ==
    IF entries = <<>> THEN Catalog(acc)
    ELSE LET e == Head(entries)
         IN  IF ~e.mapping
             THEN (IF strict THEN Raised("TypeError") ELSE Raised("AttributeError"))
             ELSE IF ~EntryValid(e)
             THEN (IF strict THEN Raised("ValidationError")
                   ELSE LoadEntries(Tail(entries), acc, strict))
             ELSE LoadEntries(Tail(entries), DictSet(acc, e), strict)

\* load_agents_config(config_path, validate)
LoadAgentsConfig(file, strict) ==
    IF ~file.exists THEN Catalog(<<>>)
    ELSE LoadEntries(file.entries, <<>>, strict)

InitLoad ==
    /\ config_file \in ConfigFiles
    /\ validate \in BOOLEAN
    /\ loaded = NotLoaded
    /\ PipeIdle /\ RouteIdle /\ ExecIdle

\* a caller runs load_agents_config
Load ==
    /\ loaded = NotLoaded
    /\ loaded' = LoadAgentsConfig(config_file, validate)
    /\ UNCHANGED <<config_file, validate>>
    /\ UNCHANGED routeVars
    /\ UNCHANGED execVars
    /\ UNCHANGED pipeVars

NextLoad == Load

SpecLoad == InitLoad /\ [][NextLoad]_vars

(***************************************************************************)
(* Routing claims                                                          *)
(***************************************************************************)
\* the override names an entry of the catalog whose status is active
ValidOverride ==
    /\ target # NoTarget
    /\ InCatalog(agents, target)
    /\ Entry(agents, target).status = "active"

\* the override names an expert that is absent, inactive or degraded
InvalidOverride ==
    /\ target # NoTarget
    /\ ~ValidOverride

\* entry i of the catalog is active and matches the query by keyword / by pattern
KeywordHit(i) ==
    /\ agents[i].status = "active"
    /\ \E k \in 1..Len(agents[i].keywords) :
          Contains(Lower(agents[i].keywords[k]), Lower(query))

PatternHit(i) ==
    /\ agents[i].status = "active"
    /\ \E k \in 1..Len(agents[i].patterns) :
          PatternValid(agents[i].patterns[k]) /\ ReSearch(agents[i].patterns[k], query)

\* C1: totality. Every smart_route call returns a decision (it does not raise) and
\* the decision's selected expert name is non-empty, for every query and catalog.
C1_Totality ==
    rpc = "routed" => (result.kind = "result" /\ result.selected_agent # "")

C3_OverrideFallthrough ==
    (rpc = "routed" /\ InvalidOverride) =>
        result = Route(agents, fallback_agent, query)

\* the override names a degraded entry and the rules select an expert by themselves
C3_Witness ==
    /\ rpc = "routed"
    /\ InCatalog(agents, target)
    /\ Entry(agents, target).status = "degraded"
    /\ candidates # <<>>
    /\ result.kind = "result"
    /\ result.routing_reason[1] = "keyword_match"

\* C10: keyword beats pattern. An active expert with both a keyword contained in the
\* query and a pattern matching it gets exactly one candidate, and that candidate's
\* reason is keyword_match:<first matching keyword>.
C10_KeywordBeatsPattern ==
    (rpc = "routed" /\ ~ValidOverride) =>
        \A i \in 1..Len(agents) :
            (KeywordHit(i) /\ PatternHit(i)) =>
                /\ Cardinality({c \in 1..Len(candidates) :
                                  candidates[c].name = agents[i].name}) = 1
                /\ \A c \in 1..Len(candidates) :
                      candidates[c].name = agents[i].name =>
                        /\ candidates[c].reason[1] = "keyword_match"
                        /\ \E k \in 1..Len(agents[i].keywords) :
                              /\ candidates[c].reason[2] = agents[i].keywords[k]
                              /\ Contains(Lower(agents[i].keywords[k]), Lower(query))
                              /\ \A j \in 1..(k - 1) :
                                    ~Contains(Lower(agents[i].keywords[j]), Lower(query))

\* route ran for an expert whose second keyword and second pattern both match
C10_Witness ==
    /\ rpc = "routed"
    /\ ~ValidOverride
    /\ \E i \in 1..Len(agents) :
          /\ KeywordHit(i)
          /\ PatternHit(i)
          /\ ~Contains(Lower(agents[i].keywords[1]), Lower(query))
          /\ \E c \in 1..Len(candidates) :
                /\ candidates[c].name = agents[i].name
                /\ candidates[c].reason = <<"keyword_match", agents[i].keywords[2]>>

(***************************************************************************)
(* Claims on rule-based routing over ranked catalogs                       *)
(***************************************************************************)
\* C11: priority ordering. When exactly two active experts are configured, both match
\* the query by keyword and their priorities differ, route returns a decision that
\* selects the one with the higher priority, for every pair of integer priorities.
C11_PriorityOrdering ==
    (/\ rpc = "routed"
     /\ Len(agents) = 2
     /\ KeywordHit(1) /\ KeywordHit(2)
     /\ agents[1].priority # agents[2].priority) =>
        /\ result.kind = "result"
        /\ result.selected_agent =
              (IF agents[1].priority > agents[2].priority
               THEN agents[1].name ELSE agents[2].name)

\* Scenario A: one active hr-expert (keyword HrKeyword, priority 10), a configured
\* fallback agent, the scenario query, no override
ScenarioA ==
    /\ rpc = "routed"
    /\ agents = << [name |-> "hr-expert", status |-> "active",
                    keywords |-> <<HrKeyword>>, patterns |-> <<>>,
                    priority |-> 10] >>
    /\ fallback_agent # ""
    /\ query = ScenarioQuery
    /\ target = NoTarget

\* C12 (as stated): in Scenario A the request is routed to hr-expert with a reason
\* starting with keyword_match: and a confidence of 0.91.
C12_ScenarioA_Stated ==
    ScenarioA =>
        /\ result.kind = "result"
        /\ result.selected_agent = "hr-expert"
        /\ result.routing_reason[1] = "keyword_match"
        /\ result.confidence = 91

\* C12 (amended): in Scenario A the request is routed to hr-expert with a reason
\* starting with keyword_match: and a confidence of 0.99, the capped bonus of
\* priority 10.
C12_ScenarioA ==
    ScenarioA =>
        /\ result.kind = "result"
        /\ result.selected_agent = "hr-expert"
        /\ result.routing_reason = <<"keyword_match", HrKeyword>>
        /\ result.confidence = 99

\* Scenario A has been routed
C12_Witness ==
    /\ ScenarioA
    /\ result.kind = "result"
    /\ candidates # <<>>
    /\ result.fallback_agents = <<fallback_agent>>

\* no entry of the catalog is active and matches the query
NoExpertMatches ==
    \A i \in 1..Len(agents) : ~KeywordHit(i) /\ ~PatternHit(i)

C15_SelectedAndFallbacks ==
    (rpc = "routed" /\ target = NoTarget /\ candidates # <<>>) =>
        /\ result.kind = "result"
        /\ result.selected_agent = candidates[1].name
        /\ LET n == Len(candidates)
               next == [i \in 1..(Min(3, n) - 1) |-> candidates[i + 1].name]
           IN  result.fallback_agents =
                  (IF fallback_agent # "" /\ \A i \in 1..Len(next) : next[i] # fallback_agent
                   THEN next \o <<fallback_agent>> ELSE next)

(***************************************************************************)
(* Interpreter claims                                                      *)
(***************************************************************************)
\* the parts a frame carries, wherever they sit
PartsOf(f) == f.parts \o f.msg

\* a status event with a thinking part that has text
ThinkingStatus(f) ==
    /\ f.kind = "status-update"
    /\ \E i \in 1..Len(f.parts) :
          /\ f.parts[i].text # ""
          /\ f.parts[i].metadata.present
          /\ f.parts[i].metadata.event_type \in ThinkingEventTypes

IsArtifact(f) == f.kind = "artifact-update"

\* an event of kind message that carries displayable text
MessageWithText(f) ==
    /\ f.kind = "message"
    /\ \E i \in 1..Len(f.parts) :
          f.parts[i].text # "" /\ ~IsHiddenEvent(f.parts[i].metadata)

TrajectoryItems == {k \in 1..Len(out) : out[k].what = "trajectory"}

\* the text items of frame j come after a trajectory block
BlockBeforeTextOf(j) ==
    \A k \in 1..Len(out) :
        (out[k].what = "text" /\ out[k].ev = j) => \E t \in TrajectoryItems : t < k

\* C4: trajectory single-flush. If a thinking status event is followed later by an
\* artifact event, exactly one trajectory item is produced, and it comes before every
\* text item derived from that artifact.
C4_TrajectorySingleFlush ==
    \A i \in 1..Len(consumed) : \A j \in (i + 1)..Len(consumed) :
        (ThinkingStatus(consumed[i]) /\ IsArtifact(consumed[j])) =>
            /\ Cardinality(TrajectoryItems) = 1
            /\ BlockBeforeTextOf(j)

\* thinking, then two artifacts whose texts were both handed out
C4_Witness ==
    /\ Len(consumed) >= 3
    /\ ThinkingStatus(consumed[1])
    /\ IsArtifact(consumed[2]) /\ IsArtifact(consumed[3])
    /\ \E k \in 1..Len(out) : out[k] = TextItem("answer", 2)
    /\ \E k \in 1..Len(out) : out[k] = TextItem("answer", 3)
    /\ Cardinality(TrajectoryItems) = 1

\* the items handed out by the step
NewItems == SubSeq(out', Len(out) + 1, Len(out'))

\* the step reads an artifact event while has_status holds and answer_started does not
ArtifactAfterStatus ==
    /\ ppc = "streaming"
    /\ Len(consumed') = Len(consumed) + 1
    /\ IsArtifact(consumed'[Len(consumed')])
    /\ agent_tree.has_status
    /\ ~agent_tree.answer_started

C5_Step ==
    LET flips == ~agent_tree.answer_started /\ agent_tree'.answer_started
        block == \E k \in 1..Len(NewItems) : NewItems[k].what = "trajectory"
    IN  /\ agent_tree.answer_started => agent_tree'.answer_started
        /\ flips <=> ArtifactAfterStatus
        /\ block <=> flips
        /\ Cardinality({k \in 1..Len(out') : out'[k].what = "trajectory"}) <= 1

C6_MessageStartsAnswer ==
    \A i \in 1..Len(consumed) : \A j \in (i + 1)..Len(consumed) :
        (ThinkingStatus(consumed[i]) /\ MessageWithText(consumed[j])) =>
            /\ agent_tree.answer_started
            /\ BlockBeforeTextOf(j)

\* only artifact and message events have been read
OnlyAnswerEvents ==
    /\ Len(consumed) >= 1
    /\ \A j \in 1..Len(consumed) : consumed[j].kind \in {"artifact-update", "message"}

\* C7: no-status passthrough. With only artifact/message events and no status event,
\* no trajectory item is produced and every answer text is handed out as live text.
C7_NoStatusPassthrough ==
    OnlyAnswerEvents =>
        /\ TrajectoryItems = {}
        /\ \A j \in 1..Len(consumed) : \A i \in 1..Len(consumed[j].parts) :
              LET p == consumed[j].parts[i]
              IN  (p.text # "" /\ ~IsHiddenEvent(p.metadata)) =>
                      \E k \in 1..Len(out) : out[k] = TextItem(p.text, j)

\* an artifact and a message, both answered directly
C7_Witness ==
    /\ OnlyAnswerEvents
    /\ Len(consumed) = 2
    /\ consumed[1].kind = "artifact-update" /\ consumed[2].kind = "message"
    /\ \E k \in 1..Len(out) : out[k] = TextItem("answer", 1)
    /\ \E k \in 1..Len(out) : out[k] = TextItem("answer", 2)
    /\ ~agent_tree.has_status

\* C8: hidden event suppression. A text part whose event type is agent_end is never
\* handed out as live text and never enters the trajectory, whatever event carries it.
C8_HiddenSuppressed ==
    /\ \A k \in 1..Len(out) :
          (out[k].what = "text" /\ out[k].ev >= 1) =>
              ~\E i \in 1..Len(PartsOf(consumed[out[k].ev])) :
                    /\ IsHiddenEvent(PartsOf(consumed[out[k].ev])[i].metadata)
                    /\ PartsOf(consumed[out[k].ev])[i].text = out[k].text
    /\ \A i \in 1..Len(agent_tree.trajectory) :
          agent_tree.trajectory[i].event_type \notin HiddenEventTypes

\* C9: error events terminate the stream. After an error event exactly one error text
\* has been handed out for it and nothing derived from a later event is handed out.
C9_ErrorTerminates ==
    \A e \in 1..Len(consumed) :
        consumed[e].kind = "error" =>
            /\ Cardinality({k \in 1..Len(out) : out[k].what = "error" /\ out[k].ev = e}) = 1
            /\ \A k \in 1..Len(out) : out[k].ev <= e

(***************************************************************************)
(* Interpreter claims: scenario, agent map, bad frames                     *)
(***************************************************************************)
\* Scenario D: a thinking status, a tool_start status for tool X, the answer artifact
ScenarioD ==
    consumed = << StatusFrame(FALSE, <<ThinkPart>>, "working"),
                  StatusFrame(FALSE, <<ToolPart>>, "working"),
                  ArtifactFrame(FALSE, <<AnswerPart>>) >>

\* what the interpreter handed out for the frames of the stream, in order
\* (the status that Pipe.pipe emits before posting the request is not part of it)
EventOutput == SelectSeq(out, LAMBDA it : it.ev > 0)

\* the block rendered from the two trajectory entries of Scenario D
ScenarioDBlock ==
    << [event_type |-> "llm_thinking", text |-> "Analyzing"],
       [event_type |-> "tool_start", text |-> "Calling X"] >>

\* C14 (as stated): in Scenario D, with an event emitter to carry the notifications,
\* the complete output of the interpreter is exactly
\* [status notification, status notification, trajectory block, text "answer"].
C14_ScenarioD_Stated ==
    (ScenarioD /\ event_emitter) =>
        EventOutput = << Item("emitter", "status", "Analyzing", FALSE, <<>>, 1),
                         Item("emitter", "status", "Calling X", FALSE, <<>>, 2),
                         TrajectoryItem(ScenarioDBlock, 3),
                         TextItem("answer", 3) >>

\* C14 (amended): in Scenario D, with an event emitter, the complete output of the
\* interpreter is exactly [status notification, status notification, final
\* "Completed" status notification (done), trajectory block, text "answer"];
\* without an event emitter it is exactly [trajectory block, text "answer"].
C14_ScenarioD ==
    ScenarioD =>
        EventOutput =
            IF event_emitter
            THEN << Item("emitter", "status", "Analyzing", FALSE, <<>>, 1),
                    Item("emitter", "status", "Calling X", FALSE, <<>>, 2),
                    Item("emitter", "status", "Completed", TRUE, <<>>, 3),
                    TrajectoryItem(ScenarioDBlock, 3),
                    TextItem("answer", 3) >>
            ELSE << TrajectoryItem(ScenarioDBlock, 3), TextItem("answer", 3) >>

\* Scenario D has been consumed to the end of the stream, with an event emitter
C14_Witness ==
    /\ ScenarioD
    /\ event_emitter
    /\ ppc = "done"
    /\ Len(EventOutput) = 5
    /\ agent_tree.answer_started

\* what the caller can tell an item by: every chunk of the generator is a plain
\* string, every notification a status event; nothing else comes with an item
OutputKind(it) == it.channel

\* C17: an error reaches the caller through an output kind that differs from the one
\* of every chunk of answer text.
C17_ErrorTagDiffers ==
    \A k \in 1..Len(out) : \A j \in 1..Len(out) :
        (out[k].what = "error" /\ out[j].what = "text") =>
            OutputKind(out[k]) # OutputKind(out[j])

\* the frame read last
LastFrame == consumed[Len(consumed)]

\* C18: after a status-update event that carries a task id, on the bare and on the
\* wrapped path, the agent map holds that agent with the state of the event.
C18_AgentStateTracked ==
    (/\ consumed # <<>>
     /\ LastFrame.kind = "status-update"
     /\ LastFrame.agent # "") =>
        /\ LastFrame.agent \in DOMAIN agent_tree.agents
        /\ agent_tree.agents[LastFrame.agent].state = LastFrame.state

\* a frame that cannot be parsed (no JSON) or classified (JSON, but not an object)
BadFrame(f) == f.kind \in {"malformed", "non-object"}

C19_Step ==
    (/\ Len(consumed') = Len(consumed) + 1
     /\ BadFrame(consumed'[Len(consumed')])) =>
        /\ out' = out
        /\ agent_tree' = agent_tree
        /\ ppc' = "streaming"

\* C19: reading a frame that cannot be parsed or classified hands out nothing, leaves
\* the interpreter state unchanged and leaves the stream open for the later events.
C19_BadFrameSkipped == [][C19_Step]_vars

\* C20: a smart_route call that overlaps reload_config returns what smart_route
\* computes on one of the catalogs that were current during the call (the old one or
\* a new one), never a decision or an exception that no single catalog explains.
C20_AtomicSnapshot ==
    rpc = "routed" =>
        \E c \in snapshots : result = SmartRoute(c, fallback_agent, query, target)

(***************************************************************************)
(* Executor claims                                                         *)
(***************************************************************************)
\* the delegation of the running request has failed
DelegationFailed == sent \in {"no_factory", "unknown_target", "send_raised"}

ErrorArtifacts ==
    {i \in 1..Len(event_queue) :
        event_queue[i].kind = "artifact-update" /\ event_queue[i].name = "error"}

\* C16: when the delegation fails (factory missing, target unknown to the factory, or
\* the send raises), the executor has enqueued exactly one error item, nothing after
\* it, no answer artifact and no completion status.
C16_DelegationFailure ==
    DelegationFailed =>
        /\ Cardinality(ErrorArtifacts) = 1
        /\ Len(event_queue) \in ErrorArtifacts
        /\ \A i \in 1..Len(event_queue) :
              /\ event_queue[i].name # "response"
              /\ ~event_queue[i].final
              /\ event_queue[i].state # "completed"

\* the send to a registered agent raised and execute has finished
C16_Witness ==
    /\ sent = "send_raised"
    /\ xpc = "done"
    /\ result.kind = "result"
    /\ result.selected_agent \in registered
    /\ event_queue = <<StatusEvent("Delegating", FALSE),
                       ArtifactEvent("error", "Delegation failed")>>

\* the running request went by direct delegation: the override was accepted
DirectRequest == xpc = "done" /\ result.kind = "result"

\* C21: a request that is delegated directly is sent at most once, and only to the
\* selected expert: never to an expert of the fallback list, never a second time.
C21_SingleAttempt ==
    DirectRequest =>
        /\ Len(attempts) <= 1
        /\ \A i \in 1..Len(attempts) : attempts[i] = result.selected_agent

\* the send to the selected expert raised while the decision lists a fallback
C21_Witness ==
    /\ DirectRequest
    /\ sent = "send_raised"
    /\ delegation_factory
    /\ result.fallback_agents # <<>>
    /\ attempts = <<result.selected_agent>>
    /\ event_queue # <<>>

\* C24: the expert that receives a request is the one smart_route selects for the
\* request's query and override on the catalog read at routing time, on every entry
\* point.
C24_RoutedBySelect ==
    (xpc = "done" /\ attempts # <<>>) =>
        \E c \in snapshots :
            /\ SmartRoute(c, fallback_agent, query, target).kind = "result"
            /\ attempts[1] = SmartRoute(c, fallback_agent, query, target).selected_agent

(***************************************************************************)
(* Configuration loader claims                                             *)
(***************************************************************************)
InvalidEntries ==
    {i \in 1..Len(config_file.entries) : ~EntryValid(config_file.entries[i])}

\* the catalog holds entry e
InLoaded(e) == \E k \in 1..Len(loaded.agents) : loaded.agents[k] = e

\* C22: with validate, a file with an invalid entry makes the load raise; without
\* validate the load returns a catalog that holds every valid entry of the file and
\* nothing else; no returned catalog holds an invalid entry.
C22_NoInvalidAccepted ==
    (loaded # NotLoaded /\ config_file.exists) =>
        /\ (validate /\ InvalidEntries # {}) => loaded.kind = "raised"
        /\ ~validate =>
              /\ loaded.kind = "catalog"
              /\ \A i \in 1..Len(config_file.entries) :
                    EntryValid(config_file.entries[i]) => InLoaded(config_file.entries[i])
        /\ loaded.kind = "catalog" =>
              \A k \in 1..Len(loaded.agents) : EntryValid(loaded.agents[k])

\* C23: load_agents_config raises FileNotFoundError when the file does not exist.
C23_MissingFileRaises ==
    (loaded # NotLoaded /\ ~config_file.exists) =>
        loaded = Raised("FileNotFoundError")

(***************************************************************************)
(* Claims on scores, match types and ties                                  *)
(***************************************************************************)
\* C25: for every integer priority, negative ones included, every confidence that
\* route computes lies between 0.0 and 0.99, so that the construction of the
\* RoutingResult never fails its bounds check.
C25_ConfidenceInRange ==
    (rpc = "routed" /\ target = NoTarget) =>
        /\ \A c \in 1..Len(candidates) : candidates[c].score \in 0..99
        /\ result.kind = "result"
        /\ result.confidence \in 0..99

\* C26: match type dominates priority. If at least one active expert matches the
\* query by keyword, route returns a decision and the selected expert is one that
\* matched by keyword, never one that matched only by pattern, whatever the
\* priorities.
C26_KeywordDominates ==
    (/\ rpc = "routed" /\ target = NoTarget
     /\ \E i \in 1..Len(agents) : KeywordHit(i)) =>
        /\ result.kind = "result"
        /\ \E i \in 1..Len(agents) :
              agents[i].name = result.selected_agent /\ KeywordHit(i)

\* the place of a candidate's expert in the catalog
IndexOf(n) == CHOOSE i \in 1..Len(agents) : agents[i].name = n

\* catalog entry i comes before entry j in priority-then-catalog order
PriorityThenCatalog(i, j) ==
    \/ agents[i].priority > agents[j].priority
    \/ agents[i].priority = agents[j].priority /\ i < j

\* entries i and j are active and match the query with the same match type
SameMatchType(i, j) ==
    \/ KeywordHit(i) /\ KeywordHit(j)
    \/ /\ PatternHit(i) /\ ~KeywordHit(i)
       /\ PatternHit(j) /\ ~KeywordHit(j)

\* the part of the fallback list that is taken from the candidates
CandidateFallbacks == SubSeq(candidates, 2, Min(3, Len(candidates)))

\* the ties among the experts and among the candidates follow the catalog
TiesFollowCatalog ==
    /\ \A i, j \in 1..Len(agents) :
          (i < j /\ agents[i].priority = agents[j].priority /\ SameMatchType(i, j)) =>
              /\ \E c, d \in 1..Len(candidates) :
                    /\ c < d
                    /\ candidates[c].name = agents[i].name
                    /\ candidates[d].name = agents[j].name
              /\ result.kind = "result" => result.selected_agent # agents[j].name
    /\ \A c, d \in 1..Len(candidates) :
          (c < d /\ candidates[c].score = candidates[d].score) =>
              PriorityThenCatalog(IndexOf(candidates[c].name),
                                  IndexOf(candidates[d].name))
    /\ (result.kind = "result" /\ candidates # <<>>) =>
          result.selected_agent = candidates[1].name

\* the score of the candidate of the expert named n
ScoreOf(n) == candidates[CHOOSE c \in 1..Len(candidates) : candidates[c].name = n].score
IsCandidate(n) == \E c \in 1..Len(candidates) : candidates[c].name = n

ValidPatterns(ps) == SelectSeq(ps, PatternValid)

WithoutInvalidPatterns(cat) ==
    [i \in 1..Len(cat) |-> [cat[i] EXCEPT !.patterns = ValidPatterns(cat[i].patterns)]]

HasInvalidPattern ==
    \E i \in 1..Len(agents) : \E k \in 1..Len(agents[i].patterns) :
        ~PatternValid(agents[i].patterns[k])

\* C28: a pattern that does not compile is skipped for that expert only: route goes
\* on with the expert's remaining patterns and with the remaining experts, and its
\* outcome is the one it has for the catalog without the invalid patterns; no
\* re.error leaves route.
C28_InvalidPatternSkipped ==
    (rpc = "routed" /\ target = NoTarget /\ HasInvalidPattern) =>
        /\ result = Route(WithoutInvalidPatterns(agents), fallback_agent, query)
        /\ candidates = RouteCandidates(WithoutInvalidPatterns(agents), query)
        /\ result.kind = "raised" => result = ValidationError

\* an expert whose first pattern does not compile is selected by its second pattern
C28_Witness ==
    /\ rpc = "routed"
    /\ target = NoTarget
    /\ \E i \in 1..Len(agents) :
          /\ agents[i].status = "active"
          /\ ~KeywordHit(i)
          /\ Len(agents[i].patterns) = 2
          /\ ~PatternValid(agents[i].patterns[1])
          /\ result.kind = "result"
          /\ result.selected_agent = agents[i].name
          /\ result.routing_reason = <<"pattern_match", agents[i].patterns[2]>>

\* the decision of the no-match branch
NoMatchDecision ==
    RoutingResult(fallback_agent, 50, <<"no_match:fallback">>, <<>>)

\* C29: for the empty query no keyword of any expert matches, and route returns the
\* no-match fallback decision unless an active expert has a pattern that matches
\* the empty string; for every catalog, rule sets with an empty-string keyword
\* included.
C29_EmptyQuery ==
    (rpc = "routed" /\ target = NoTarget /\ query = <<>>) =>
        /\ \A c \in 1..Len(candidates) : candidates[c].reason[1] # "keyword_match"
        /\ (\A i \in 1..Len(agents) : ~PatternHit(i)) => result = NoMatchDecision

\* the configured fallback agent is not an active entry of the catalog
FallbackUnresolvable == fallback_agent \notin ActiveNames(agents)

\* C30: if no rule matches and the configured fallback agent is not an active entry
\* of the catalog, route ends with an error raised to its caller and returns no
\* decision that names the fallback agent.
C30_UnresolvableFallback ==
    (rpc = "routed" /\ target = NoTarget /\ NoExpertMatches /\ FallbackUnresolvable) =>
        result.kind = "raised"

(***************************************************************************)
(* Claims on the status of experts                                         *)
(***************************************************************************)
IsActive(n) == InCatalog(agents, n) /\ Entry(agents, n).status = "active"

RuleMatched == result.routing_reason[1] \in {"keyword_match", "pattern_match"}

\* C31: only active experts take part in routing. An expert whose status is
\* inactive or degraded is never a candidate, never the rule-matched selection,
\* never one of the fallback names taken from the candidates, and never accepted
\* as an override target, whatever its keywords, patterns and priority.
C31_OnlyActiveRouted ==
    rpc = "routed" =>
        /\ \A c \in 1..Len(candidates) : IsActive(candidates[c].name)
        /\ result.kind = "result" =>
              /\ RuleMatched =>
                    /\ IsActive(result.selected_agent)
                    /\ \A k \in 1..Len(CandidateFallbacks) :
                          /\ result.fallback_agents[k] = CandidateFallbacks[k].name
                          /\ IsActive(result.fallback_agents[k])
              /\ result.routing_reason = <<"parameter:target_agent">> =>
                    result.selected_agent = target /\ IsActive(target)

\* a degraded expert of the highest priority matches by keyword and is named as
\* override target: the active expert that matches is selected instead
C31_Witness ==
    /\ rpc = "routed"
    /\ \E i \in 1..Len(agents) :
          /\ agents[i].status = "degraded"
          /\ MatchingKeywords(agents[i], query) # {}
          /\ target = agents[i].name
          /\ \A j \in 1..Len(agents) : agents[j].priority <= agents[i].priority
          /\ result.kind = "result"
          /\ RuleMatched
          /\ result.selected_agent # agents[i].name
          /\ \A k \in 1..Len(result.fallback_agents) :
                result.fallback_agents[k] # agents[i].name

(***************************************************************************)
(* Claims on the trajectory and on the order of the outputs                *)
(***************************************************************************)
\* the trajectory blocks handed out that render entry i of the trajectory
RenderingsOf(i) ==
    {k \in TrajectoryItems :
        /\ Len(out[k].block) >= i
        /\ out[k].block[i].text = agent_tree.trajectory[i].text
        /\ out[k].block[i].event_type = agent_tree.trajectory[i].event_type}

\* C32: when the stream has ended, every entry appended to the trajectory during the
\* request has been rendered in a trajectory block handed to the caller, exactly
\* once.
C32_TrajectoryRendered ==
    ppc = "done" =>
        \A i \in 1..Len(agent_tree.trajectory) : Cardinality(RenderingsOf(i)) = 1

\* the text of item k is the text of a part of the event it comes from
FromOwnEvent(k) ==
    \E i \in 1..Len(PartsOf(consumed[out[k].ev])) :
        PartsOf(consumed[out[k].ev])[i].text = out[k].text

\* C33: the outputs reach the caller in the order of their events, each live text
\* and each status notification carrying a text of its own event; the only buffered
\* output is the trajectory block, which is handed out during an artifact-update,
\* right after the 'Completed' notification and before the texts of that artifact,
\* with nothing but these texts after it in that event.
C33_OutputOrder ==
    /\ \A k, l \in 1..Len(out) : k < l => out[k].ev <= out[l].ev
    /\ \A k \in 1..Len(out) :
          (out[k].ev > 0 /\ (out[k].what = "text" \/ (out[k].what = "status" /\ ~out[k].done)))
              => FromOwnEvent(k)
    /\ \A k \in TrajectoryItems :
          /\ consumed[out[k].ev].kind = "artifact-update"
          /\ event_emitter =>
                (k > 1 /\ out[k - 1] = Item("emitter", "status", "Completed", TRUE, <<>>, out[k].ev))
          /\ \A l \in 1..Len(out) :
                (out[l].ev = out[k].ev /\ out[l].what = "text") => l > k
          /\ \A l \in (k + 1)..Len(out) :
                out[l].ev = out[k].ev => out[l].what = "text"

\* live text, then a thinking status, then the artifact: the block stands between
\* the 'Completed' notification and the text of the artifact
C33_Witness ==
    /\ event_emitter
    /\ \E k \in TrajectoryItems :
          /\ k < Len(out)
          /\ out[k + 1] = TextItem("answer", out[k].ev)
          /\ out[k - 1].what = "status" /\ out[k - 1].done
          /\ \E l \in 1..(k - 1) : out[l].what = "text" /\ out[l].ev < out[k].ev

(***************************************************************************)
(* Claims on concurrent requests                                           *)
(***************************************************************************)
\* the interpreter state and the outputs of a request that runs alone on the
\* frames given
RECURSIVE RunAlone(_, _)
RunAlone(em, frames) ==
    IF frames = <<>>
    THEN Step(NewAgentTree, EmitStatus(em, "Sending", FALSE, 0))
    ELSE LET prev == RunAlone(em, SubSeq(frames, 1, Len(frames) - 1))
             step == ProcessLine(frames[Len(frames)], prev.tree, em, Len(frames))
         IN  Step(step.tree, prev.out \o step.out)

\* C34: concurrent requests are independent. With the events of two requests on
\* one Pipe instance interleaved in any order, the interpreter state of each request
\* (has_status, answer_started, trajectory, agent map) and its outputs are those of
\* the request run alone on its own events.
C34_RequestsIndependent ==
    \A r \in Requests :
        requests[r].ppc # "idle" =>
            LET alone == RunAlone(requests[r].event_emitter, requests[r].consumed)
            IN  /\ requests[r].agent_tree = alone.tree
                /\ requests[r].out = alone.out

\* both requests are in their streams: the first has started its answer, the
\* second has collected a thinking event and recorded a tool call
C34_Witness ==
    /\ requests[1].ppc = "streaming" /\ requests[2].ppc = "streaming"
    /\ requests[1].agent_tree.answer_started
    /\ requests[2].agent_tree.has_status /\ ~requests[2].agent_tree.answer_started
    /\ Len(requests[2].agent_tree.trajectory) = 1
    /\ "task-1" \in DOMAIN requests[2].agent_tree.agents
    /\ requests[2].agent_tree.agents["task-1"].tools_called # <<>>

(***************************************************************************)
(* Claims on the end of a delegated request                                *)
(***************************************************************************)
\* the delegate call of the executor has returned or raised, or was not made for
\* want of a factory, and _execute_direct_delegation_native has finished
DelegationEnded ==
    /\ xpc = "done"
    /\ sent \in {"returned", "no_factory", "unknown_target", "send_raised"}

\* C35: a request that is delegated by the executor passes from routing to
\* delegating and on to its end, completed or failed, and the executor marks that
\* end with a final status event: once the delegate call has returned or raised,
\* the last event enqueued for the request is a final one.
C35_FinalEvent ==
    DelegationEnded =>
        /\ event_queue # <<>>
        /\ event_queue[Len(event_queue)].final

(***************************************************************************)
(* Claims on the classification of parts                                   *)
(***************************************************************************)
\* the class the claim gives to a part's metadata
StatedClass(md) ==
    IF md.present /\ md.event_type = "agent_end" THEN "hidden"
    ELSE IF md.present /\ md.event_type \in
                {"agent_start", "llm_thinking", "tool_decision", "tool_start",
                 "tool_end", "sub_agent_status"}
         THEN "thinking"
    ELSE "regular"

Flipped(md) == [md EXCEPT !.is_propagated = ~@]

\* the events read so far whose part the claim calls thinking
StatedThinking ==
    SelectSeq(consumed, LAMBDA f : StatedClass(f.parts[1].metadata) = "thinking")

\* C36: the classification of a text part is total and mutually exclusive. Every
\* part is hidden (event type agent_end), thinking (agent_start, llm_thinking,
\* tool_decision, tool_start, tool_end, sub_agent_status) or regular (no metadata
\* or any other event type), never two of them, the interpreter treats it as its
\* class says, and the is_propagated flag alone never changes the class.
C36_Classification ==
    /\ \A e \in 1..Len(consumed) :
        LET md == consumed[e].parts[1].metadata
        IN  /\ ~(IsHiddenEvent(md) /\ IsThinkingEvent(md))
            /\ Classify(md) = StatedClass(md)
            /\ md.present => Classify(Flipped(md)) = Classify(md)
            /\ (\E k \in 1..Len(out) : out[k].ev = e /\ out[k].what = "text")
                   <=> StatedClass(md) = "regular"
    /\ Len(agent_tree.trajectory) = Len(StatedThinking)
    /\ \A i \in 1..Len(StatedThinking) :
          agent_tree.trajectory[i].metadata = StatedThinking[i].parts[1].metadata

\* a propagated agent_end, a propagated thinking event and a propagated event of
\* another type have been read: dropped, collected, handed out as text
C36_Witness ==
    /\ Len(consumed) = 3
    /\ consumed[1].parts[1].metadata = Metadata("agent_end", TRUE, "")
    /\ consumed[2].parts[1].metadata = Metadata("sub_agent_status", TRUE, "")
    /\ consumed[3].parts[1].metadata = Metadata("custom", TRUE, "")
    /\ Len(agent_tree.trajectory) = 1
    /\ \E k \in 1..Len(out) : out[k] = TextItem("note", 3)

(***************************************************************************)
(* Claims on overrides and registered delegation tools                     *)
(***************************************************************************)
\* C37: after any sequence of setup, failed registrations and reload_config calls,
\* every expert that route_by_parameter accepts as override target has a registered
\* delegation tool, so that an accepted override never ends in 'No delegation tool
\* found for agent'.
C37_AcceptedHasTool ==
    /\ (xpc \in {"direct", "delegating"} /\ delegation_factory) =>
           result.selected_agent \in registered
    /\ sent # "ValueError"

(***************************************************************************)
(* Claims on the two delivery paths of the interpreter                     *)
(***************************************************************************)
\* the events read so far came bare and are of the four kinds of the claim
BareEvents ==
    \A e \in 1..Len(consumed) :
        /\ ~consumed[e].wrapped
        /\ consumed[e].kind \in {"status-update", "artifact-update", "message", "tool-call"}

\* the same events, each under the key "result" of a JSON-RPC response
WrappedEvents == [e \in 1..Len(consumed) |-> [consumed[e] EXCEPT !.wrapped = TRUE]]

\* C38: the two delivery paths are equivalent. For every sequence of status-update,
\* artifact-update, message and tool-call events, the events fed bare and the same
\* events fed wrapped in a JSON-RPC result give the same outputs and the same final
\* interpreter state (has_status, answer_started, trajectory, agents and their
\* tools called).
C38_PathsEquivalent ==
    (ppc = "streaming" /\ BareEvents) =>
        LET wrapped == RunAlone(event_emitter, WrappedEvents)
        IN  /\ wrapped.out = out
            /\ wrapped.tree = agent_tree

(***************************************************************************)
(* Claims on the fallback list                                             *)
(***************************************************************************)
\* C39: in every decision returned by route or route_by_parameter the fallback list
\* holds at most three names, has no duplicate and does not contain the selected
\* expert, also when the configured fallback agent is the one selected.
C39_FallbackList ==
    (rpc = "routed" /\ result.kind = "result") =>
        LET fbs == result.fallback_agents
        IN  /\ Len(fbs) <= 3
            /\ \A k, l \in 1..Len(fbs) : k # l => fbs[k] # fbs[l]
            /\ \A k \in 1..Len(fbs) : fbs[k] # result.selected_agent

====
